---- MODULE Spec2Model ----
(***************************************************************************)
(* Lumina IoT: the device-state synchronisation core.                      *)
(*                                                                         *)
(* One process hosts two threads that share the module-level registry      *)
(* `devices` (src/api/src/mqtt.py:21):                                     *)
(*   - the main thread: start.py's main(), then the asyncio event loop     *)
(*     that runs the UI app's lifespan and every HTTP handler (each        *)
(*     handler is an `async def` without an await, so it runs to           *)
(*     completion with respect to the other handlers);                     *)
(*   - the paho network thread started by loop_start(): it runs            *)
(*     _on_connect and _on_message, one message at a time, and its steps   *)
(*     interleave with the main thread between shared reads and writes.    *)
(* The durable store (PostgreSQL) is dbDevice / dbState; a transaction     *)
(* becomes visible at its commit.                                          *)
(***************************************************************************)
EXTENDS Integers, Sequences, FiniteSets, TLC

VARIABLES
    devices,     \* mqtt.devices: dict device_id -> entry (a function on the known ids)
    dbDevice,    \* table devices: device_id -> [friendly_name, last_seen]
    dbState,     \* table device_state: device_id -> [brightness, color_r, color_g, color_b, effect]
    now,         \* datetime.utcnow(), in seconds
    connected,   \* MQTTClient.connected
    session,     \* TRUE while a broker session is established (the socket)
    pc,          \* main thread: position in start.py main() / lifespan / serving
    mpc,         \* paho thread: position in _on_message and its handlers
    msg,         \* paho thread: the message being handled
    inbox,       \* messages the broker has delivered and the thread has not yet taken
    published,   \* messages published by send_command during the last HTTP request, in order
    notified,    \* calls made to on_state_change, in order
    resp,        \* the last HTTP response, with the request it answers
    nEvents,     \* inputs so far: deliveries, requests, faults, restarts, clock steps
    reports,     \* history: per device, the state reports delivered while it was registered
    lastSet,     \* history: per device, the fields whose latest writer is a command, with the value
    named,       \* history: per device, the name given by the last successful setName
    dropped,     \* history: the topic of the last message a handler discarded at its device_id test
    on_state_change, \* mqtt.on_state_change: "None", or the callable assigned to the hook
    tool         \* the assistant-tool server: the call in progress or the result of the last one

vars == <<devices, dbDevice, dbState, now, connected, session, pc, mpc, msg, inbox,
          published, notified, resp, nEvents,
          reports, lastSet, named, dropped, on_state_change, tool>>

-----------------------------------------------------------------------------
(* Bounds of the model.                                                    *)
MaxEvents == 3

(* Program constants.                                                      *)
OnlineWindow == 300
DefaultBrightness == 100
DefaultChannel == 255
DefaultEffect == "none"

(* The clock advances in steps of TickStep seconds.                        *)
TickStep == OnlineWindow \div 2

-----------------------------------------------------------------------------
(* Values.                                                                 *)
Ids == {"d1", "d2"}
NoId == ""                      \* payload.get("device_id") is None or empty
NullTime == -1                  \* last_seen IS NULL
NoChan == -1                    \* a channel key absent from a color dict
NoneName == <<"None">>          \* friendly_name is None
NoKey == <<"absent">>           \* the entry has no "friendly_name" key
Fields == {"power", "brightness", "color", "effect"}

Color(r, g, b) == [r |-> r, g |-> g, b |-> b]
White == Color(DefaultChannel, DefaultChannel, DefaultChannel)

(* A state-report or command payload: `keys` are the keys the JSON object  *)
(* carries; a field outside `keys` holds a placeholder that is never read. *)
Payload(id, keys, power, brightness, color, effect) ==
    [device_id |-> id, keys |-> keys, power |-> power, brightness |-> brightness,
     color |-> color, effect |-> effect]

NoPayload == Payload(NoId, {}, TRUE, 0, Color(NoChan, NoChan, NoChan), "")

OnlyBrightness(id, v) == [NoPayload EXCEPT !.device_id = id, !.keys = {"brightness"}, !.brightness = v]
OnlyColor(id, c)      == [NoPayload EXCEPT !.device_id = id, !.keys = {"color"}, !.color = c]
OnlyEffect(id, e)     == [NoPayload EXCEPT !.device_id = id, !.keys = {"effect"}, !.effect = e]
OnlyPower(id, p)      == [NoPayload EXCEPT !.device_id = id, !.keys = {"power"}, !.power = p]

(* The state reports a device may send.                                    *)
StateReports(id) ==
    { OnlyBrightness(id, 10),
      OnlyBrightness(id, 20),
      OnlyColor(id, Color(10, NoChan, NoChan)),
      [NoPayload EXCEPT !.device_id = id, !.keys = {"power", "color", "effect"},
                        !.power = FALSE, !.color = Color(10, 20, 30), !.effect = "rainbow"] }

(* Inbound messages: topic devices/announce or lights/<tid>/state.         *)
Announce(id) == [topic |-> "announce", tid |-> NoId, kind |-> "json",
                 payload |-> [NoPayload EXCEPT !.device_id = id]]
StateMsg(tid, p) == [topic |-> "state", tid |-> tid, kind |-> "json", payload |-> p]
InvalidJson(tid) == [topic |-> "state", tid |-> tid, kind |-> "invalid", payload |-> NoPayload]
NoMsg == [topic |-> "none", tid |-> NoId, kind |-> "json", payload |-> NoPayload]

(* Payload bytes that are not UTF-8 (msg.payload.decode() raises           *)
(* UnicodeDecodeError), and JSON text that is not an object (json.loads    *)
(* returns a list, a number, a string or None, which has no .get).         *)
Undecodable(tid) == [topic |-> "state", tid |-> tid, kind |-> "undecodable", payload |-> NoPayload]
NonObject(topic, tid) == [topic |-> topic, tid |-> tid, kind |-> "nonobject", payload |-> NoPayload]

Messages ==
    { Announce(id) : id \in Ids \cup {NoId} }
    \cup { StateMsg("d1", p) : p \in StateReports("d1") }
    \cup { StateMsg("d2", OnlyEffect("d2", "rainbow")),
           StateMsg("d1", OnlyBrightness(NoId, 10)), InvalidJson("d1"),
           Undecodable("d1"), NonObject("announce", NoId) }

(* Friendly names as typed by the user: strings over a blank and a letter. *)
Blank == " "
RawNames == { <<"L">>, <<Blank, "L", Blank>>, <<Blank, Blank>>, <<>> }


-----------------------------------------------------------------------------
(* Dictionaries and tables: functions on the keys they hold.               *)
EmptyMap == [x \in {} |-> NoPayload]
Put(f, k, v) == [x \in (DOMAIN f) \cup {k} |-> IF x = k THEN v ELSE f[x]]

(* str.strip(): drop the leading and the trailing blanks.                  *)
RECURSIVE LStrip(_)
LStrip(s) == IF s # <<>> /\ Head(s) = Blank THEN LStrip(Tail(s)) ELSE s

RECURSIVE RStrip(_)
RStrip(s) == IF s # <<>> /\ s[Len(s)] = Blank THEN RStrip(SubSeq(s, 1, Len(s) - 1)) ELSE s

Strip(s) == RStrip(LStrip(s))

(* friendly_name.strip() or None                                           *)
CleanName(raw) == IF Strip(raw) = <<>> THEN NoneName ELSE Strip(raw)

(* Faulty variant of NewEntry: the new device is entered powered off.      *)
NewEntryPoweredOff(id) ==
    [device_id |-> id, friendly_name |-> NoKey, online |-> "True", power |-> FALSE,
     brightness |-> DefaultBrightness, color |-> White, effect |-> DefaultEffect]

(* The entry a first announcement creates: it has no "friendly_name" key.  *)
NewEntry(id) ==
    [device_id |-> id, friendly_name |-> NoKey, online |-> "True", power |-> TRUE,
     brightness |-> DefaultBrightness, color |-> White, effect |-> DefaultEffect]

NoBody == NewEntry(NoId)

(* An HTTP response, with the request it answers (arg: the name given to   *)
(* a rename; mqtt_connected: the flag a health check reports).             *)
Response(op, id, status, body) ==
    [op |-> op, id |-> id, arg |-> NoKey, status |-> status, body |-> body, list |-> {},
     mqtt_connected |-> FALSE]

NoResponse == Response("none", NoId, 0, NoBody)

(* Column defaults of a DeviceState row.                                   *)
NewStateRow ==
    [brightness |-> DefaultBrightness, color_r |-> DefaultChannel,
     color_g |-> DefaultChannel, color_b |-> DefaultChannel, effect |-> DefaultEffect]

NewDeviceRow(t) == [friendly_name |-> NoneName, last_seen |-> t]

(* device.last_seen and (now - device.last_seen).total_seconds() < 300:    *)
(* Python's `and` yields its left operand when that is falsy, so a NULL    *)
(* last_seen gives None, not False.                                        *)
RecentlySeen(last_seen, t) ==
    IF last_seen = NullTime THEN "None"
    ELSE IF t - last_seen < OnlineWindow THEN "True" ELSE "False"

(* The entry load_devices_from_db builds for one Device row.               *)
LoadedEntry(id, dev, st, hasState, t) ==
    [device_id |-> id,
     friendly_name |-> dev.friendly_name,
     online |-> RecentlySeen(dev.last_seen, t),
     power |-> TRUE,
     brightness |-> IF hasState THEN st.brightness ELSE DefaultBrightness,
     color |-> Color(IF hasState THEN st.color_r ELSE DefaultChannel,
                     IF hasState THEN st.color_g ELSE DefaultChannel,
                     IF hasState THEN st.color_b ELSE DefaultChannel),
     effect |-> IF hasState THEN st.effect ELSE DefaultEffect]

Loaded(devs, dbd, dbs, t) ==
    [d \in (DOMAIN devs) \cup (DOMAIN dbd) |->
        IF d \in DOMAIN dbd
        THEN LoadedEntry(d, dbd[d], IF d \in DOMAIN dbs THEN dbs[d] ELSE NewStateRow,
                         d \in DOMAIN dbs, t)
        ELSE devs[d]]

(* Faulty variants of the in-memory writes: a power report taken as a      *)
(* toggle; a brightness report that also switches the light on.            *)
ApplyPowerToggle(e, p) == [e EXCEPT !.power = ~@]
ApplyBrightnessAndPower(e, p) == [e EXCEPT !.brightness = p.brightness, !.power = TRUE]

(* Faulty variant of the online mark: the entry goes back to the defaults. *)
MarkOnlineResets(e) == NewEntry(e.device_id)

(* Faulty variant of the color write: the reported channels are merged     *)
(* into the color the entry holds.                                         *)
ApplyColorMerged(e, p) ==
    [e EXCEPT !.color = [c \in {"r", "g", "b"} |->
                           IF p.color[c] # NoChan THEN p.color[c] ELSE e.color[c]]]

(* The in-memory writes of _handle_state_update, one per step.             *)
MarkOnline(e)      == [e EXCEPT !.online = "True"]
ApplyPower(e, p)      == [e EXCEPT !.power = p.power]
ApplyBrightness(e, p) == [e EXCEPT !.brightness = p.brightness]
ApplyColor(e, p)      == [e EXCEPT !.color = p.color]
ApplyEffect(e, p)     == [e EXCEPT !.effect = p.effect]

(* All of them in program order: the entry after one whole report.         *)
ApplyReport(e, p) ==
    LET e0 == MarkOnline(e)
        e1 == IF "power" \in p.keys THEN ApplyPower(e0, p) ELSE e0
        e2 == IF "brightness" \in p.keys THEN ApplyBrightness(e1, p) ELSE e1
        e3 == IF "color" \in p.keys THEN ApplyColor(e2, p) ELSE e2
    IN  IF "effect" \in p.keys THEN ApplyEffect(e3, p) ELSE e3

(* payload["color"].get("r", state.color_r)                                *)
ChanOr(c, old) == IF c = NoChan THEN old ELSE c

(* The DeviceState row after the report is persisted.                      *)
PersistReport(row, p) ==
    LET r1 == IF "brightness" \in p.keys THEN [row EXCEPT !.brightness = p.brightness] ELSE row
        r2 == IF "color" \in p.keys
              THEN [r1 EXCEPT !.color_r = ChanOr(p.color.r, r1.color_r),
                              !.color_g = ChanOr(p.color.g, r1.color_g),
                              !.color_b = ChanOr(p.color.b, r1.color_b)]
              ELSE r1
    IN  IF "effect" \in p.keys THEN [r2 EXCEPT !.effect = p.effect] ELSE r2

(* The position after the write of field `f`: the next key the payload     *)
(* carries, in the order of the `if` statements, else the store.           *)
AfterField(p, f) ==
    LET rest == CASE f = "online" -> <<"power", "brightness", "color", "effect">>
                  [] f = "power" -> <<"brightness", "color", "effect">>
                  [] f = "brightness" -> <<"color", "effect">>
                  [] f = "color" -> <<"effect">>
                  [] OTHER -> <<>>
        here == { i \in 1..Len(rest) : rest[i] \in p.keys }
    IN  IF here = {} THEN "state_db"
        ELSE "state_" \o rest[CHOOSE i \in here : \A j \in here : i <= j]



-----------------------------------------------------------------------------
(* History bookkeeping (read by the properties only).                      *)
NoHistory == [d \in Ids |-> NoPayload]
NoReports == [d \in Ids |-> <<>>]
NoNames == [d \in Ids |-> NoKey]

LastTwo(s) == IF Len(s) > 2 THEN SubSeq(s, Len(s) - 1, Len(s)) ELSE s

(* A command wrote field f of device d.                                    *)
CommandWrote(h, d, p) ==
    LET f == CHOOSE k \in p.keys : TRUE
    IN  [h EXCEPT ![d] = [@ EXCEPT !.keys = @ \cup {f},
                                   !.power = IF f = "power" THEN p.power ELSE @,
                                   !.brightness = IF f = "brightness" THEN p.brightness ELSE @,
                                   !.color = IF f = "color" THEN p.color ELSE @,
                                   !.effect = IF f = "effect" THEN p.effect ELSE @]]

(* A state report wrote field f of device d.                               *)
ReportWrote(h, d, f) ==
    [h EXCEPT ![d] = [@ EXCEPT !.keys = @ \ {f},
                               !.power = IF f = "power" THEN NoPayload.power ELSE @,
                               !.brightness = IF f = "brightness" THEN NoPayload.brightness ELSE @,
                               !.color = IF f = "color" THEN NoPayload.color ELSE @,
                               !.effect = IF f = "effect" THEN NoPayload.effect ELSE @]]

-----------------------------------------------------------------------------
(* The store the process is started on.                                    *)
SavedState == [brightness |-> 40, color_r |-> 1, color_g |-> 2, color_b |-> 3, effect |-> "fire"]

InitialStores ==
    { [dev |-> EmptyMap, st |-> EmptyMap] }
    \cup { [dev |-> [d \in {"d1"} |-> [friendly_name |-> <<"K">>, last_seen |-> t]],
            st |-> [d \in {"d1"} |-> SavedState]] : t \in {NullTime, 0} }

(* The assistant-tool server between calls, before its first call.         *)
NoCall == [op |-> "none", arg |-> NoId, payload |-> NoPayload, pos |-> "idle",
           targets |-> <<>>, results |-> <<>>, outcome |-> "none"]

(* The state after the modules are imported and before main() runs, but   *)
(* for the hook.                                                           *)
Imported(stores) ==
    /\ \E s \in stores : dbDevice = s.dev /\ dbState = s.st
    /\ devices = EmptyMap
    /\ now = 0
    /\ connected = FALSE
    /\ session = FALSE
    /\ pc = "main_start"
    /\ mpc = "off"
    /\ msg = NoMsg
    /\ inbox = <<>>
    /\ published = <<>>
    /\ notified = <<>>
    /\ resp = NoResponse
    /\ nEvents = 0
    /\ reports = NoReports
    /\ lastSet = NoHistory
    /\ named = NoNames
    /\ dropped = NoMsg.topic
    /\ tool = NoCall

(* mqtt.on_state_change is None at import and nothing in the repository    *)
(* assigns it.                                                             *)
Init ==
    /\ Imported(InitialStores)
    /\ on_state_change = "None"

(* The same program with a callable assigned to the hook by the module     *)
(* that imports mqtt, before main() runs.                                  *)
InitObserved ==
    /\ Imported(InitialStores)
    /\ on_state_change = "observer"

(* The store a first announcement of d1 leaves when its second write       *)
(* fails: the Device row without the DeviceState row.                      *)
HalfCreated == [dev |-> [d \in {"d1"} |-> NewDeviceRow(0)], st |-> EmptyMap]

(* The program started on such a store.                                    *)
InitHalfCreated ==
    /\ Imported({HalfCreated})
    /\ on_state_change = "None"

volatile == <<devices, connected, session, pc, mpc, msg, inbox, published, notified, resp>>
store == <<dbDevice, dbState>>
counters == <<nEvents>>

(* One more input, while the budget lasts.                                 *)
Event == nEvents < MaxEvents /\ nEvents' = nEvents + 1
history == <<reports, lastSet, named, dropped>>
paho == <<mpc, msg, inbox>>

-----------------------------------------------------------------------------
(* Main thread: start.py main() and the UI app's lifespan.                 *)

(* mqtt_client.load_devices_from_db(), called from main()                  *)
MainLoad ==
    /\ pc = "main_start"
    /\ devices' = Loaded(devices, dbDevice, dbState, now)
    /\ pc' = "main_loaded"
    /\ lastSet' = NoHistory
    /\ UNCHANGED <<store, now, connected, session, paho, published, notified, on_state_change, tool, resp,
                   counters, reports, named, dropped>>

(* mqtt_client.connect(): client.connect() then loop_start()               *)
MainConnect ==
    /\ pc = "main_loaded"
    /\ session' = TRUE
    /\ mpc' = "idle"
    /\ pc' = "main_connected"
    /\ UNCHANGED <<devices, store, now, connected, msg, inbox, published, notified, on_state_change, tool, resp,
                   counters, history>>

(* client.connect() raises when the broker is unreachable: main() ends.    *)
MainConnectFail ==
    /\ pc = "main_loaded"
    /\ pc' = "crashed"
    /\ UNCHANGED <<devices, store, now, connected, session, paho, published, notified, on_state_change, tool, resp,
                   counters, history>>

(* uvicorn runs the UI app's lifespan before it serves: a second load,     *)
(* with the paho thread already running.                                   *)
LifespanLoad ==
    /\ pc = "main_connected"
    /\ devices' = Loaded(devices, dbDevice, dbState, now)
    /\ pc' = "lifespan_loaded"
    /\ lastSet' = NoHistory
    /\ UNCHANGED <<store, now, connected, session, paho, published, notified, on_state_change, tool, resp,
                   counters, reports, named, dropped>>

(* the lifespan's mqtt_client.connect(): the session is opened again;      *)
(* loop_start() finds the thread running.                                  *)
LifespanConnect ==
    /\ pc = "lifespan_loaded"
    /\ session' = TRUE
    /\ pc' = "serving"
    /\ UNCHANGED <<devices, store, now, connected, paho, published, notified, on_state_change, tool, resp,
                   counters, history>>

(* main()'s finally: mqtt_client.disconnect(); loop_stop() joins the       *)
(* thread, so it waits for the handler in progress.                        *)
Shutdown ==
    /\ pc = "serving"
    /\ mpc \in {"idle", "dead"}
    /\ pc' = "stopped"
    /\ mpc' = "off"
    /\ session' = FALSE
    /\ inbox' = <<>>
    /\ UNCHANGED <<devices, store, now, connected, msg, published, notified, on_state_change, tool, resp,
                   counters, history>>

(* The process ends and is started again: everything in memory is gone,    *)
(* the store stays; the hook is what the import leaves it.                 *)
Restart ==
    /\ Event
    /\ pc \in {"serving", "stopped", "crashed"}
    /\ mpc \in {"off", "idle", "dead"}
    /\ devices' = EmptyMap
    /\ connected' = FALSE
    /\ session' = FALSE
    /\ pc' = "main_start"
    /\ mpc' = "off"
    /\ msg' = NoMsg
    /\ inbox' = <<>>
    /\ published' = <<>>
    /\ notified' = <<>>
    /\ resp' = NoResponse
    /\ reports' = NoReports
    /\ lastSet' = NoHistory
    /\ dropped' = NoMsg.topic
    /\ UNCHANGED <<store, now, named, on_state_change, tool>>

(* Time passes, in steps of TickStep, while the process is down.           *)
Tick ==
    /\ Event
    /\ pc = "main_start"
    /\ now' = now + TickStep
    /\ UNCHANGED <<volatile, store, history, on_state_change, tool>>


-----------------------------------------------------------------------------
(* The paho network thread.                                                *)

(* _on_connect: the broker accepted the session.                           *)
OnConnect ==
    /\ mpc = "idle"
    /\ session
    /\ ~connected
    /\ connected' = TRUE
    /\ UNCHANGED <<devices, store, now, session, pc, paho, published, notified, on_state_change, tool, resp,
                   counters, history>>

(* The connection drops; nothing in the client records it.                 *)
ConnectionLost ==
    /\ session
    /\ mpc = "idle"
    /\ Event
    /\ session' = FALSE
    /\ UNCHANGED <<devices, store, now, connected, pc, paho, published, notified, on_state_change, tool, resp,
                   history>>

(* loop_forever reconnects, and _on_connect runs again.                    *)
Reconnect ==
    /\ ~session
    /\ mpc = "idle"
    /\ session' = TRUE
    /\ connected' = TRUE
    /\ UNCHANGED <<devices, store, now, pc, paho, published, notified, on_state_change, tool, resp,
                   counters, history>>

(* The broker delivers a message on a subscribed topic (the subscriptions  *)
(* are made in _on_connect).                                               *)
Deliver(m) ==
    /\ session
    /\ connected
    /\ mpc \notin {"off", "dead"}
    /\ Event
    /\ inbox' = Append(inbox, m)
    /\ reports' = IF /\ m.topic = "state" /\ m.kind = "json"
                     /\ m.payload.device_id \in DOMAIN devices
                  THEN [reports EXCEPT ![m.payload.device_id] = LastTwo(Append(@, m.payload))]
                  ELSE reports
    /\ UNCHANGED <<devices, store, now, connected, session, pc, mpc, msg, published, notified, on_state_change, tool,
                   resp, lastSet, named, dropped>>

(* paho calls _on_message once per message, oldest first.                  *)
Take(q) == [m |-> Head(q), rest |-> Tail(q)]
NextMessage(q) == Take(q).m
Remaining(q) == Take(q).rest

(* _on_message: json.loads fails, the message is dropped.                  *)
OnMessageInvalid ==
    /\ mpc = "idle"
    /\ inbox # <<>>
    /\ NextMessage(inbox).kind = "invalid"
    /\ inbox' = Remaining(inbox)
    /\ UNCHANGED <<devices, store, now, connected, session, pc, mpc, msg, published, notified, on_state_change, tool,
                   resp, counters, history>>

(* _on_message: only json.JSONDecodeError is caught. Undecodable bytes     *)
(* raise UnicodeDecodeError in _on_message, and a payload that is not an   *)
(* object raises AttributeError at payload.get in the handler: the         *)
(* exception leaves _on_message and ends the network thread.               *)
OnMessageRaises ==
    /\ mpc = "idle"
    /\ inbox # <<>>
    /\ NextMessage(inbox).kind \in {"undecodable", "nonobject"}
    /\ inbox' = Remaining(inbox)
    /\ mpc' = "dead"
    /\ UNCHANGED <<devices, store, now, connected, session, pc, msg, published, notified, on_state_change, tool,
                   resp, counters, history>>

(* _on_message -> _handle_device_announce, up to the in-memory update.     *)
HandleDeviceAnnounce ==
    /\ mpc = "idle"
    /\ inbox # <<>>
    /\ NextMessage(inbox).kind = "json"
    /\ NextMessage(inbox).topic = "announce"
    /\ inbox' = Remaining(inbox)
    /\ LET id == NextMessage(inbox).payload.device_id IN
         IF id = NoId
         THEN /\ dropped' = NextMessage(inbox).topic
              /\ UNCHANGED <<devices, mpc, msg>>
         ELSE /\ devices' = IF id \notin DOMAIN devices
                            THEN Put(devices, id, NewEntry(id))
                            ELSE [devices EXCEPT ![id] = MarkOnline(@)]
              /\ mpc' = "announce_db"
              /\ msg' = NextMessage(inbox)
              /\ UNCHANGED dropped
    /\ UNCHANGED <<store, now, connected, session, pc, published, notified, on_state_change, tool, resp,
                   counters, reports, lastSet, named>>

(* _handle_device_announce: query the Device row; insert it and commit,    *)
(* or refresh last_seen and commit.                                        *)
AnnounceDb ==
    /\ mpc = "announce_db"
    /\ LET id == msg.payload.device_id IN
         IF id \notin DOMAIN dbDevice
         THEN /\ dbDevice' = Put(dbDevice, id, NewDeviceRow(now))
              /\ mpc' = "announce_db_state"
              /\ UNCHANGED msg
         ELSE /\ dbDevice' = [dbDevice EXCEPT ![id].last_seen = now]
              /\ mpc' = "idle"
              /\ msg' = NoMsg
    /\ UNCHANGED <<devices, dbState, now, connected, session, pc, inbox, published, notified, on_state_change, tool,
                   resp, counters, history>>

(* _handle_device_announce: insert the initial DeviceState and commit.     *)
AnnounceDbState ==
    /\ mpc = "announce_db_state"
    /\ dbState' = Put(dbState, msg.payload.device_id, NewStateRow)
    /\ mpc' = "idle"
    /\ msg' = NoMsg
    /\ UNCHANGED <<devices, dbDevice, now, connected, session, pc, inbox, published, notified, on_state_change, tool,
                   resp, counters, history>>

(* Faulty variant of StoreFault: the observer is called before the commit, *)
(* so a report whose write fails is notified too.                          *)
StoreFaultAfterNotify ==
    /\ mpc \in {"announce_db", "announce_db_state", "state_db"}
    /\ Event
    /\ mpc' = "dead"
    /\ msg' = NoMsg
    /\ notified' = IF mpc = "state_db" /\ on_state_change # "None"
                   THEN Append(notified, [device_id |-> msg.payload.device_id,
                                          device |-> devices[msg.payload.device_id]])
                   ELSE notified
    /\ UNCHANGED <<devices, store, now, connected, session, pc, inbox, published,
                   resp, history, on_state_change, tool>>

(* A store operation raises: the exception leaves _on_message and ends     *)
(* the network thread.                                                     *)
StoreFault ==
    /\ mpc \in {"announce_db", "announce_db_state", "state_db"}
    /\ Event
    /\ mpc' = "dead"
    /\ msg' = NoMsg
    /\ UNCHANGED <<devices, store, now, connected, session, pc, inbox, published, notified, on_state_change, tool,
                   resp, history>>

(* Faulty variant of HandleStateUpdate: a report that names an identifier  *)
(* not in the registry registers it instead of being discarded.            *)
HandleStateUpdateRegisters ==
    /\ mpc = "idle"
    /\ inbox # <<>>
    /\ NextMessage(inbox).kind = "json"
    /\ NextMessage(inbox).topic = "state"
    /\ inbox' = Remaining(inbox)
    /\ LET p == NextMessage(inbox).payload IN
         IF p.device_id = NoId
         THEN /\ dropped' = NextMessage(inbox).topic
              /\ UNCHANGED <<devices, mpc, msg>>
         ELSE /\ devices' = IF p.device_id \in DOMAIN devices
                            THEN [devices EXCEPT ![p.device_id] = MarkOnline(@)]
                            ELSE Put(devices, p.device_id, NewEntry(p.device_id))
              /\ mpc' = AfterField(p, "online")
              /\ msg' = NextMessage(inbox)
              /\ UNCHANGED dropped
    /\ UNCHANGED <<store, now, connected, session, pc, published, notified, on_state_change, tool, resp,
                   counters, reports, lastSet, named>>

(* Faulty variant of HandleStateUpdate: the device is the one the topic    *)
(* names, not the one the payload names.                                   *)
HandleStateUpdateByTopic ==
    /\ mpc = "idle"
    /\ inbox # <<>>
    /\ NextMessage(inbox).kind = "json"
    /\ NextMessage(inbox).topic = "state"
    /\ inbox' = Remaining(inbox)
    /\ LET p == NextMessage(inbox).payload
           t == NextMessage(inbox).tid IN
         IF p.device_id = NoId \/ p.device_id \notin DOMAIN devices \/ t \notin DOMAIN devices
         THEN /\ dropped' = NextMessage(inbox).topic
              /\ UNCHANGED <<devices, mpc, msg>>
         ELSE /\ devices' = [devices EXCEPT ![t] = MarkOnline(@)]
              /\ mpc' = AfterField(p, "online")
              /\ msg' = NextMessage(inbox)
              /\ UNCHANGED dropped
    /\ UNCHANGED <<store, now, connected, session, pc, published, notified, on_state_change, tool,
                   resp, counters, reports, lastSet, named>>

(* _on_message -> _handle_state_update, up to the online mark.             *)
HandleStateUpdate ==
    /\ mpc = "idle"
    /\ inbox # <<>>
    /\ NextMessage(inbox).kind = "json"
    /\ NextMessage(inbox).topic = "state"
    /\ inbox' = Remaining(inbox)
    /\ LET p == NextMessage(inbox).payload IN
         IF p.device_id = NoId \/ p.device_id \notin DOMAIN devices
         THEN /\ dropped' = NextMessage(inbox).topic
              /\ UNCHANGED <<devices, mpc, msg>>
         ELSE /\ devices' = [devices EXCEPT ![p.device_id] = MarkOnline(@)]
              /\ mpc' = AfterField(p, "online")
              /\ msg' = NextMessage(inbox)
              /\ UNCHANGED dropped
    /\ UNCHANGED <<store, now, connected, session, pc, published, notified, on_state_change, tool, resp,
                   counters, reports, lastSet, named>>

(* One `if "<field>" in payload:` write of _handle_state_update.           *)
StateField(f) ==
    /\ mpc = "state_" \o f
    /\ LET p == msg.payload IN
         /\ devices' = [devices EXCEPT ![p.device_id] =
                          CASE f = "power" -> ApplyPower(@, p)
                            [] f = "brightness" -> ApplyBrightness(@, p)
                            [] f = "color" -> ApplyColor(@, p)
                            [] OTHER -> ApplyEffect(@, p)]
         /\ mpc' = AfterField(p, f)
         /\ lastSet' = ReportWrote(lastSet, p.device_id, f)
    /\ UNCHANGED <<store, now, connected, session, pc, msg, inbox, published, notified, on_state_change, tool, resp,
                   counters, reports, named, dropped>>

(* _handle_state_update: refresh last_seen, persist the reported fields,   *)
(* commit; then notify the observer, if one is set.                        *)
StateDb ==
    /\ mpc = "state_db"
    /\ LET p == msg.payload
           id == p.device_id IN
         /\ dbDevice' = IF id \in DOMAIN dbDevice
                        THEN [dbDevice EXCEPT ![id].last_seen = now] ELSE dbDevice
         /\ dbState' = IF id \in DOMAIN dbState
                       THEN [dbState EXCEPT ![id] = PersistReport(@, p)] ELSE dbState
         /\ notified' = IF on_state_change # "None"
                        THEN Append(notified, [device_id |-> id, device |-> devices[id]])
                        ELSE notified
    /\ mpc' = "idle"
    /\ msg' = NoMsg
    /\ UNCHANGED <<devices, now, connected, session, pc, inbox, published, resp,
                   counters, history, on_state_change, tool>>


-----------------------------------------------------------------------------
(* HTTP handlers and the service layer (main thread, while serving).       *)
CmdColors == { Color(1, 2, 3) }
CmdBrightness == { 150 }
CmdEffects == { "fire" }
CmdPower == { FALSE }

(* Nothing published yet by the request being served.                      *)
NonePublished == <<>>

(* Faulty variant of NotFound: the membership test is missing and the      *)
(* request is answered 200.                                                *)
NotFoundAnswersOk(op, id) ==
    /\ resp' = Response(op, id, 200, NoBody)
    /\ published' = NonePublished
    /\ UNCHANGED <<devices, store, history>>

(* raise HTTPException(status_code=404): nothing else happens.             *)
NotFound(op, id) ==
    /\ resp' = Response(op, id, 404, NoBody)
    /\ published' = NonePublished
    /\ UNCHANGED <<devices, store, history>>

(* An uncaught exception in a handler: the framework answers 500.          *)
ServerError(op, id) ==
    /\ resp' = Response(op, id, 500, NoBody)
    /\ published' = NonePublished
    /\ UNCHANGED <<devices, store, history>>

(* MQTTClient.send_command: publish to lights/<id>/set; a QoS 0 publish    *)
(* without a session is dropped.                                           *)
SendCommand(pub, id, p) ==
    IF session THEN Append(pub, [topic |-> "lights/" \o id \o "/set", payload |-> p]) ELSE pub

(* A request is served: by the API app, to any client.                     *)
Served ==
    /\ pc = "serving"
    /\ Event
    /\ UNCHANGED <<now, connected, session, pc, paho, notified, on_state_change>>

(* A request of a client other than the assistant-tool server is served.   *)
Serving ==
    /\ Served
    /\ UNCHANGED tool

(* GET /health: {"status": "ok", "mqtt_connected": mqtt_client.connected}   *)
api_health ==
    /\ Serving
    /\ resp' = [Response("health", NoId, 200, NoBody) EXCEPT !.mqtt_connected = connected]
    /\ published' = NonePublished
    /\ UNCHANGED <<devices, store, history>>

(* GET /devices/{device_id}                                                *)
route_get_device(id) ==
    /\ Served
    /\ IF id \notin DOMAIN devices
       THEN NotFound("get", id)
       ELSE /\ resp' = Response("get", id, 200, devices[id])
            /\ published' = NonePublished
            /\ UNCHANGED <<devices, store, history>>

(* The same route, serving a client other than the assistant-tool server.  *)
api_get_device(id) ==
    /\ route_get_device(id)
    /\ UNCHANGED tool

(* GET /devices                                                            *)
route_list_devices ==
    /\ Served
    /\ resp' = [Response("list", NoId, 200, NoBody) EXCEPT
                   !.list = { devices[d] : d \in DOMAIN devices }]
    /\ published' = NonePublished
    /\ UNCHANGED <<devices, store, history>>

(* The same route, serving a client other than the assistant-tool server.  *)
api_list_devices ==
    /\ route_list_devices
    /\ UNCHANGED tool

(* Faulty variant of api_set_color: the command is published but the       *)
(* entry is not updated.                                                   *)
api_set_color_unrecorded(id, c) ==
    /\ Serving
    /\ IF id \notin DOMAIN devices
       THEN NotFound("set_color", id)
       ELSE /\ published' = SendCommand(NonePublished, id, OnlyColor(NoId, c))
            /\ devices' = devices
            /\ resp' = Response("set_color", id, 200, devices'[id])
            /\ lastSet' = CommandWrote(lastSet, id, OnlyColor(NoId, c))
            /\ UNCHANGED <<store, reports, named, dropped>>

(* POST /devices/{device_id}/color                                         *)
route_set_color(id, c) ==
    /\ Served
    /\ IF id \notin DOMAIN devices
       THEN NotFound("set_color", id)
       ELSE /\ published' = SendCommand(NonePublished, id, OnlyColor(NoId, c))
            /\ devices' = [devices EXCEPT ![id].color = c]
            /\ resp' = Response("set_color", id, 200, devices'[id])
            /\ lastSet' = CommandWrote(lastSet, id, OnlyColor(NoId, c))
            /\ UNCHANGED <<store, reports, named, dropped>>

(* The same route, serving a client other than the assistant-tool server.  *)
api_set_color(id, c) ==
    /\ route_set_color(id, c)
    /\ UNCHANGED tool

(* Faulty variant of api_set_brightness: the commanded value is also       *)
(* written to the DeviceState row.                                         *)
api_set_brightness_persisted(id, v) ==
    /\ Serving
    /\ IF id \notin DOMAIN devices
       THEN NotFound("set_brightness", id)
       ELSE /\ published' = SendCommand(NonePublished, id, OnlyBrightness(NoId, v))
            /\ devices' = [devices EXCEPT ![id].brightness = v]
            /\ dbState' = IF id \in DOMAIN dbState
                          THEN [dbState EXCEPT ![id].brightness = v] ELSE dbState
            /\ resp' = Response("set_brightness", id, 200, devices'[id])
            /\ lastSet' = CommandWrote(lastSet, id, OnlyBrightness(NoId, v))
            /\ UNCHANGED <<dbDevice, reports, named, dropped>>

(* POST /devices/{device_id}/brightness                                    *)
route_set_brightness(id, v) ==
    /\ Served
    /\ IF id \notin DOMAIN devices
       THEN NotFound("set_brightness", id)
       ELSE /\ published' = SendCommand(NonePublished, id, OnlyBrightness(NoId, v))
            /\ devices' = [devices EXCEPT ![id].brightness = v]
            /\ resp' = Response("set_brightness", id, 200, devices'[id])
            /\ lastSet' = CommandWrote(lastSet, id, OnlyBrightness(NoId, v))
            /\ UNCHANGED <<store, reports, named, dropped>>

(* The same route, serving a client other than the assistant-tool server.  *)
api_set_brightness(id, v) ==
    /\ route_set_brightness(id, v)
    /\ UNCHANGED tool

(* POST /devices/{device_id}/effect                                        *)
route_set_effect(id, e) ==
    /\ Served
    /\ IF id \notin DOMAIN devices
       THEN NotFound("set_effect", id)
       ELSE /\ published' = SendCommand(NonePublished, id, OnlyEffect(NoId, e))
            /\ devices' = [devices EXCEPT ![id].effect = e]
            /\ resp' = Response("set_effect", id, 200, devices'[id])
            /\ lastSet' = CommandWrote(lastSet, id, OnlyEffect(NoId, e))
            /\ UNCHANGED <<store, reports, named, dropped>>

(* The same route, serving a client other than the assistant-tool server.  *)
api_set_effect(id, e) ==
    /\ route_set_effect(id, e)
    /\ UNCHANGED tool

(* POST /devices/{device_id}/power                                         *)
route_set_power(id, on) ==
    /\ Served
    /\ IF id \notin DOMAIN devices
       THEN NotFound("set_power", id)
       ELSE /\ published' = SendCommand(NonePublished, id, OnlyPower(NoId, on))
            /\ devices' = [devices EXCEPT ![id].power = on]
            /\ resp' = Response("set_power", id, 200, devices'[id])
            /\ lastSet' = CommandWrote(lastSet, id, OnlyPower(NoId, on))
            /\ UNCHANGED <<store, reports, named, dropped>>

(* The same route, serving a client other than the assistant-tool server.  *)
api_set_power(id, on) ==
    /\ route_set_power(id, on)
    /\ UNCHANGED tool

(* services.get_device                                                     *)
get_device(id) ==
    /\ Serving
    /\ IF id \notin DOMAIN devices
       THEN NotFound("get", id)
       ELSE /\ resp' = Response("get", id, 200, devices[id])
            /\ published' = NonePublished
            /\ UNCHANGED <<devices, store, history>>

(* services.get_all_devices                                                *)
get_all_devices ==
    /\ Serving
    /\ resp' = [Response("list", NoId, 200, NoBody) EXCEPT
                   !.list = { devices[d] : d \in DOMAIN devices }]
    /\ published' = NonePublished
    /\ UNCHANGED <<devices, store, history>>

(* services.set_color                                                      *)
set_color(id, c) ==
    /\ Serving
    /\ IF id \notin DOMAIN devices
       THEN NotFound("set_color", id)
       ELSE /\ published' = SendCommand(NonePublished, id, OnlyColor(NoId, c))
            /\ devices' = [devices EXCEPT ![id].color = c]
            /\ resp' = Response("set_color", id, 200, devices'[id])
            /\ lastSet' = CommandWrote(lastSet, id, OnlyColor(NoId, c))
            /\ UNCHANGED <<store, reports, named, dropped>>

(* services.set_brightness                                                 *)
set_brightness(id, v) ==
    /\ Serving
    /\ IF id \notin DOMAIN devices
       THEN NotFound("set_brightness", id)
       ELSE /\ published' = SendCommand(NonePublished, id, OnlyBrightness(NoId, v))
            /\ devices' = [devices EXCEPT ![id].brightness = v]
            /\ resp' = Response("set_brightness", id, 200, devices'[id])
            /\ lastSet' = CommandWrote(lastSet, id, OnlyBrightness(NoId, v))
            /\ UNCHANGED <<store, reports, named, dropped>>

(* Faulty variant of services.set_effect: the entry is updated but no      *)
(* command is published.                                                   *)
set_effect_unpublished(id, e) ==
    /\ Serving
    /\ IF id \notin DOMAIN devices
       THEN NotFound("set_effect", id)
       ELSE /\ published' = NonePublished
            /\ devices' = [devices EXCEPT ![id].effect = e]
            /\ resp' = Response("set_effect", id, 200, devices'[id])
            /\ lastSet' = CommandWrote(lastSet, id, OnlyEffect(NoId, e))
            /\ UNCHANGED <<store, reports, named, dropped>>

(* services.set_effect                                                     *)
set_effect(id, e) ==
    /\ Serving
    /\ IF id \notin DOMAIN devices
       THEN NotFound("set_effect", id)
       ELSE /\ published' = SendCommand(NonePublished, id, OnlyEffect(NoId, e))
            /\ devices' = [devices EXCEPT ![id].effect = e]
            /\ resp' = Response("set_effect", id, 200, devices'[id])
            /\ lastSet' = CommandWrote(lastSet, id, OnlyEffect(NoId, e))
            /\ UNCHANGED <<store, reports, named, dropped>>

(* services.set_power                                                      *)
set_power(id, on) ==
    /\ Serving
    /\ IF id \notin DOMAIN devices
       THEN NotFound("set_power", id)
       ELSE /\ published' = SendCommand(NonePublished, id, OnlyPower(NoId, on))
            /\ devices' = [devices EXCEPT ![id].power = on]
            /\ resp' = Response("set_power", id, 200, devices'[id])
            /\ lastSet' = CommandWrote(lastSet, id, OnlyPower(NoId, on))
            /\ UNCHANGED <<store, reports, named, dropped>>

(* services.set_name: the Device row is updated only if the query finds    *)
(* it; the in-memory name is set either way.                               *)
set_name(id, raw) ==
    /\ Serving
    /\ IF id \notin DOMAIN devices
       THEN NotFound("set_name", id)
       ELSE /\ dbDevice' = IF id \in DOMAIN dbDevice
                           THEN [dbDevice EXCEPT ![id].friendly_name = CleanName(raw)]
                           ELSE dbDevice
            /\ devices' = [devices EXCEPT ![id].friendly_name = CleanName(raw)]
            /\ resp' = [Response("set_name", id, 200, devices'[id]) EXCEPT !.arg = raw]
            /\ named' = [named EXCEPT ![id] = CleanName(raw)]
            /\ published' = NonePublished
            /\ UNCHANGED <<dbState, reports, lastSet, dropped>>

(* POST /devices/{device_id}/name (UI app)                                 *)
set_device_name(id, raw) ==
    /\ Serving
    /\ IF id \notin DOMAIN devices
       THEN NotFound("set_name", id)
       ELSE /\ dbDevice' = IF id \in DOMAIN dbDevice
                           THEN [dbDevice EXCEPT ![id].friendly_name = CleanName(raw)]
                           ELSE dbDevice
            /\ devices' = [devices EXCEPT ![id].friendly_name = CleanName(raw)]
            /\ resp' = [Response("set_name", id, 200, devices'[id]) EXCEPT !.arg = raw]
            /\ named' = [named EXCEPT ![id] = CleanName(raw)]
            /\ published' = NonePublished
            /\ UNCHANGED <<dbState, reports, lastSet, dropped>>

(* The store raises inside a rename (query or commit): the exception       *)
(* leaves the handler before the in-memory name is set.                    *)
SetNameFault(id) ==
    /\ Serving
    /\ id \in DOMAIN devices
    /\ ServerError("set_name", id)

-----------------------------------------------------------------------------
(* The assistant-tool server (src/mcp-server/server.py): a separate        *)
(* process, an HTTP client of the API app. A request of it meets a         *)
(* refused connection (httpx.ConnectError) whenever the API process is     *)
(* not serving.                                                            *)
ToolIds == Ids \cup {NoId}
ToolColors == { Color(300, 2, 3) }
ToolBrightness == { 150 }
ToolEffects == { " Fire ", "disco" }
ToolPower == { FALSE }

VALID_EFFECTS == {"none", "rainbow", "breathing", "chase", "sparkle", "fire", "confetti",
                  "cylon", "strobe", "ocean", "aurora", "candle", "christmas", "usa"}

(* max(lo, min(hi, v))                                                     *)
Clamp(lo, hi, v) ==
    LET least == IF v < hi THEN v ELSE hi
    IN  IF least > lo THEN least ELSE lo

(* effect.lower().strip(), on the effect names the tool is given here.     *)
LowerStripped(e) == IF e = " Fire " THEN "fire" ELSE e

ApiUp == pc = "serving"

(* The ids of resp.json() of GET /devices, as a list.                      *)
IdOrder == <<"d1", "d2">>
Listed(devs) == SelectSeq(IdOrder, LAMBDA d : d \in DOMAIN devs)

ApiUntouched ==
    UNCHANGED <<devices, store, now, connected, session, pc, paho, published, notified,
                resp, history, on_state_change>>

Call(op, arg, p) == [NoCall EXCEPT !.op = op, !.arg = arg, !.payload = p]

(* list_devices(): the GET is inside the try.                              *)
tool_list_devices ==
    /\ tool.pos = "idle"
    /\ IF ApiUp
       THEN /\ route_list_devices
            /\ tool' = [Call("list_devices", NoId, NoPayload) EXCEPT
                           !.results = [i \in 1..Len(Listed(devices)) |->
                                          [id |-> Listed(devices)[i], res |-> "ok"]],
                           !.outcome = "ok"]
       ELSE /\ Event
            /\ tool' = [Call("list_devices", NoId, NoPayload) EXCEPT !.outcome = "unreachable"]
            /\ ApiUntouched

(* get_device(device_id): the GET is inside the try; 404 is told apart.    *)
tool_get_device(id) ==
    /\ tool.pos = "idle"
    /\ IF ApiUp
       THEN /\ route_get_device(id)
            /\ tool' = [Call("get_device", id, NoPayload) EXCEPT
                           !.outcome = IF resp'.status = 404 THEN "not_found" ELSE "ok"]
       ELSE /\ Event
            /\ tool' = [Call("get_device", id, NoPayload) EXCEPT !.outcome = "unreachable"]
            /\ ApiUntouched

(* _get_target_devices inside the try of a set_* tool: a given device_id   *)
(* is returned without any request; otherwise GET /devices.                *)
Targeting(op, arg, p) ==
    /\ tool.pos = "idle"
    /\ IF arg # NoId
       THEN /\ Event
            /\ tool' = [Call(op, arg, p) EXCEPT !.pos = "posting", !.targets = <<arg>>]
            /\ ApiUntouched
       ELSE IF ApiUp
       THEN /\ route_list_devices
            /\ tool' = IF Listed(devices) = <<>>
                       THEN [Call(op, arg, p) EXCEPT !.outcome = "ok"]
                       ELSE [Call(op, arg, p) EXCEPT !.pos = "posting",
                                                     !.targets = Listed(devices)]
       ELSE /\ Event
            /\ tool' = [Call(op, arg, p) EXCEPT !.outcome = "unreachable"]
            /\ ApiUntouched

(* set_color(r, g, b, device_id): clamp, then resolve the targets.         *)
tool_set_color(c, arg) ==
    Targeting("set_color", arg,
              OnlyColor(NoId, Color(Clamp(0, 255, c.r), Clamp(0, 255, c.g), Clamp(0, 255, c.b))))

(* set_brightness(brightness, device_id)                                   *)
tool_set_brightness(v, arg) ==
    Targeting("set_brightness", arg, OnlyBrightness(NoId, Clamp(0, 100, v)))

(* set_effect(effect, device_id): an unknown effect is answered at once.   *)
tool_set_effect(e, arg) ==
    IF LowerStripped(e) \notin VALID_EFFECTS
    THEN /\ tool.pos = "idle"
         /\ Event
         /\ tool' = [Call("set_effect", arg, OnlyEffect(NoId, LowerStripped(e))) EXCEPT
                        !.outcome = "unknown_effect"]
         /\ ApiUntouched
    ELSE Targeting("set_effect", arg, OnlyEffect(NoId, LowerStripped(e)))

(* set_power(power, device_id)                                             *)
tool_set_power(on, arg) ==
    Targeting("set_power", arg, OnlyPower(NoId, on))

(* One turn of `for did in targets:` in a set_* tool: the POST is outside  *)
(* the try, so a refused connection leaves the tool as an exception; 404   *)
(* is told apart; after the last target the tool returns its text.         *)
tool_post ==
    /\ tool.pos = "posting"
    /\ LET did == Head(tool.targets)
           rest == Tail(tool.targets) IN
         IF ApiUp
         THEN /\ CASE tool.op = "set_color" -> route_set_color(did, tool.payload.color)
                   [] tool.op = "set_brightness" -> route_set_brightness(did, tool.payload.brightness)
                   [] tool.op = "set_effect" -> route_set_effect(did, tool.payload.effect)
                   [] OTHER -> route_set_power(did, tool.payload.power)
              /\ tool' = [tool EXCEPT
                             !.targets = rest,
                             !.results = Append(@, [id |-> did,
                                                    res |-> IF resp'.status = 404
                                                            THEN "not found" ELSE "ok"]),
                             !.pos = IF rest = <<>> THEN "idle" ELSE "posting",
                             !.outcome = IF rest = <<>> THEN "ok" ELSE "none"]
         ELSE /\ tool' = [tool EXCEPT !.pos = "idle", !.targets = <<>>,
                                      !.outcome = "raised ConnectError"]
              /\ ApiUntouched
              /\ UNCHANGED counters

-----------------------------------------------------------------------------
Next ==
    \/ MainLoad
    \/ MainConnect
    \/ MainConnectFail
    \/ LifespanLoad
    \/ LifespanConnect
    \/ Shutdown
    \/ Restart
    \/ Tick
    \/ OnConnect
    \/ ConnectionLost
    \/ Reconnect
    \/ \E m \in Messages : Deliver(m)
    \/ OnMessageInvalid
    \/ OnMessageRaises
    \/ HandleDeviceAnnounce
    \/ AnnounceDb
    \/ AnnounceDbState
    \/ StoreFault
    \/ HandleStateUpdate
    \/ \E f \in Fields : StateField(f)
    \/ StateDb
    \/ api_health
    \/ \E id \in Ids : api_get_device(id)
    \/ api_list_devices
    \/ \E id \in Ids, c \in CmdColors : api_set_color(id, c)
    \/ \E id \in Ids, v \in CmdBrightness : api_set_brightness(id, v)
    \/ \E id \in Ids, e \in CmdEffects : api_set_effect(id, e)
    \/ \E id \in Ids, on \in CmdPower : api_set_power(id, on)
    \/ \E id \in Ids : get_device(id)
    \/ get_all_devices
    \/ \E id \in Ids, c \in CmdColors : set_color(id, c)
    \/ \E id \in Ids, v \in CmdBrightness : set_brightness(id, v)
    \/ \E id \in Ids, e \in CmdEffects : set_effect(id, e)
    \/ \E id \in Ids, on \in CmdPower : set_power(id, on)
    \/ \E id \in Ids, raw \in RawNames : set_name(id, raw)
    \/ \E id \in Ids, raw \in RawNames : set_device_name(id, raw)
    \/ \E id \in Ids : SetNameFault(id)

Spec == Init /\ [][Next]_vars

(* The behaviours with an observer on the hook.                            *)
SpecObserved == InitObserved /\ [][Next]_vars

(* The behaviours that start on the store a failed first announcement left. *)
SpecHalfCreated == InitHalfCreated /\ [][Next]_vars

(* A state report of d2 published on the state topic of d1.                *)
CrossTopic == StateMsg("d1", OnlyEffect("d2", "aurora"))

(* The program with that report among the messages the broker delivers.    *)
NextCrossTopic ==
    \/ Next
    \/ Deliver(CrossTopic)

SpecCrossTopic == Init /\ [][NextCrossTopic]_vars

(* The program together with the assistant-tool server.                    *)
NextTools ==
    \/ Next
    \/ tool_list_devices
    \/ \E id \in Ids : tool_get_device(id)
    \/ \E c \in ToolColors, arg \in ToolIds : tool_set_color(c, arg)
    \/ \E v \in ToolBrightness, arg \in ToolIds : tool_set_brightness(v, arg)
    \/ \E e \in ToolEffects, arg \in ToolIds : tool_set_effect(e, arg)
    \/ \E on \in ToolPower, arg \in ToolIds : tool_set_power(on, arg)
    \/ tool_post

SpecTools == Init /\ [][NextTools]_vars


-----------------------------------------------------------------------------
(* Vocabulary of the properties.                                           *)

(* A step that serves one HTTP request (or one service-layer call).        *)
RequestStep ==
    /\ pc = "serving" /\ pc' = "serving"
    /\ nEvents' = nEvents + 1
    /\ inbox' = inbox /\ session' = session /\ mpc' = mpc

StatePositions == {"state_power", "state_brightness", "state_color", "state_effect", "state_db"}

(* A step of _handle_state_update that writes the in-memory entry.         *)
ReportWriteStep == mpc' # mpc /\ mpc' \in StatePositions

(* Every delivered message has been handled, and the thread is alive.      *)
Handled == mpc = "idle" /\ inbox = <<>>

EntryKeys == {"device_id", "friendly_name", "online", "power", "brightness", "color", "effect"}

-----------------------------------------------------------------------------
(* C1: every read or command on an identifier that is not in the registry  *)
(* answers 404 and has no side effect: nothing is published, the registry  *)
(* and both store tables are unchanged.                                    *)
C1_UnknownIsNotFound ==
    [][(RequestStep /\ resp'.op \in {"get", "set_color", "set_brightness", "set_effect",
                                     "set_power", "set_name"}
                    /\ resp'.id \notin DOMAIN devices)
         => /\ resp'.status = 404
            /\ published' = <<>>
            /\ devices' = devices
            /\ dbDevice' = dbDevice
            /\ dbState' = dbState]_vars

C1_Witness ==
    /\ resp.op = "set_color" /\ resp.status = 404
    /\ resp.id \notin DOMAIN devices
    /\ DOMAIN devices # {}
    /\ session

-----------------------------------------------------------------------------
(* C2: once every delivered report is handled, each field carried by the   *)
(* report delivered last for a device holds that report's value in the     *)
(* registry (unless a command wrote the field afterwards) and in the       *)
(* DeviceState row: nothing older overwrites it.                           *)
C2_LastDeliveredWins ==
    \A d \in Ids :
        (Handled /\ reports[d] # <<>> /\ d \in DOMAIN devices) =>
            LET p == reports[d][Len(reports[d])] IN
            /\ \A f \in p.keys \ lastSet[d].keys : devices[d][f] = p[f]
            /\ d \in DOMAIN dbState
            /\ "brightness" \in p.keys => dbState[d].brightness = p.brightness
            /\ "effect" \in p.keys => dbState[d].effect = p.effect
            /\ "color" \in p.keys =>
                 /\ p.color.r # NoChan => dbState[d].color_r = p.color.r
                 /\ p.color.g # NoChan => dbState[d].color_g = p.color.g
                 /\ p.color.b # NoChan => dbState[d].color_b = p.color.b

-----------------------------------------------------------------------------
(* C3: every identifier in the registry has a Device row in the store.     *)
C3_RegistryHasRow == \A d \in DOMAIN devices : d \in DOMAIN dbDevice

-----------------------------------------------------------------------------
(* C4, as claimed: a state report carrying one operating field changes     *)
(* only that field of the entry; the other operating fields, the name and  *)
(* the online flag keep their values.                                      *)
C4_OnlyThatField ==
    [][(ReportWriteStep /\ Cardinality(msg'.payload.keys) = 1) =>
          LET p == msg'.payload
              d == p.device_id IN
          \A g \in EntryKeys \ p.keys : devices'[d][g] = devices[d][g]]_vars

(* C4, amended: such a report sets that field to the reported value and    *)
(* the online flag to true, and changes nothing else of the entry.         *)
C4_OnlyThatFieldAndOnline ==
    [][(ReportWriteStep /\ Cardinality(msg'.payload.keys) = 1) =>
          LET p == msg'.payload
              d == p.device_id IN
          /\ \A g \in EntryKeys \ (p.keys \cup {"online"}) : devices'[d][g] = devices[d][g]
          /\ IF mpc = "idle"
             THEN /\ devices'[d].online = "True"
                  /\ \A f \in p.keys : devices'[d][f] = devices[d][f]
             ELSE /\ devices'[d].online = devices[d].online
                  /\ \A f \in p.keys : devices'[d][f] = p[f]]_vars

C4_Witness ==
    /\ Handled
    /\ reports["d1"] = <<OnlyBrightness("d1", 20)>>
    /\ devices["d1"].brightness = 20
    /\ devices["d1"].power = FALSE
    /\ devices["d1"].effect = "fire"
    /\ devices["d1"].color = Color(1, 2, 3)
    /\ devices["d1"].friendly_name = <<"K">>
    /\ devices["d1"].online = "True"

-----------------------------------------------------------------------------
(* C5: for every registered device and every report, handling the report   *)
(* a second time changes neither the entry nor the DeviceState row.        *)
C5_ReportIdempotent ==
    \A d \in DOMAIN devices : \A p \in StateReports(d) :
        /\ LET once == ApplyReport(devices[d], p) IN ApplyReport(once, p) = once
        /\ d \in DOMAIN dbState =>
             LET once == PersistReport(dbState[d], p) IN PersistReport(once, p) = once

C5_Witness ==
    /\ Handled
    /\ Len(reports["d1"]) = 2
    /\ reports["d1"][1] = reports["d1"][2]
    /\ "color" \in reports["d1"][2].keys
    /\ devices["d1"] = ApplyReport(devices["d1"], reports["d1"][2])
    /\ "d1" \in DOMAIN dbState
    /\ dbState["d1"] = PersistReport(dbState["d1"], reports["d1"][2])


-----------------------------------------------------------------------------
-----------------------------------------------------------------------------
(* C7: a get answers, for every field a command set on that device and no  *)
(* state report has written since, the value the command set.              *)
C7_GetReturnsWhatWasSet ==
    resp.op = "get" =>
        \A f \in lastSet[resp.id].keys :
            /\ resp.status = 200
            /\ resp.body[f] = lastSet[resp.id][f]

C7_Witness ==
    /\ resp.op = "get" /\ resp.status = 200 /\ resp.id = "d1"
    /\ lastSet["d1"].keys = {"color"}
    /\ resp.body.color = Color(1, 2, 3)
    /\ "d1" \in DOMAIN dbState
    /\ dbState["d1"].color_r = 1
    /\ devices["d1"].brightness = 40
    /\ reports["d1"] = <<>>

-----------------------------------------------------------------------------
(* C8: a successful setName on a registered device stores, in the Device  *)
(* row and in the entry, the given name without its leading and trailing   *)
(* blanks, or None when nothing else is left.                              *)
AllBlank(s) == \A i \in 1..Len(s) : s[i] = Blank

IsTrimOf(name, raw) ==
    IF AllBlank(raw)
    THEN name = NoneName
    ELSE \E i \in 1..Len(raw) : \E j \in i..Len(raw) :
            /\ name = SubSeq(raw, i, j)
            /\ raw[i] # Blank /\ raw[j] # Blank
            /\ AllBlank(SubSeq(raw, 1, i - 1))
            /\ AllBlank(SubSeq(raw, j + 1, Len(raw)))

C8_NameNormalized ==
    [][(RequestStep /\ resp'.op = "set_name" /\ resp'.status = 200) =>
          /\ IsTrimOf(devices'[resp'.id].friendly_name, resp'.arg)
          /\ resp'.body.friendly_name = devices'[resp'.id].friendly_name
          /\ resp'.id \in DOMAIN dbDevice'
          /\ dbDevice'[resp'.id].friendly_name = devices'[resp'.id].friendly_name]_vars

(* The same, for a device whose Device row exists: holds.                  *)
C8_NormalizedWhenRowExists ==
    [][(RequestStep /\ resp'.op = "set_name" /\ resp'.status = 200
                    /\ resp'.id \in DOMAIN dbDevice) =>
          /\ IsTrimOf(devices'[resp'.id].friendly_name, resp'.arg)
          /\ resp'.body.friendly_name = devices'[resp'.id].friendly_name
          /\ dbDevice'[resp'.id].friendly_name = devices'[resp'.id].friendly_name]_vars

-----------------------------------------------------------------------------
(* C9: once the registry is loaded, every device that a successful         *)
(* setName named is registered under the name of the last such setName;    *)
(* in particular after a restart.                                          *)
C9_NameSurvivesRestart ==
    pc \in {"main_loaded", "main_connected", "lifespan_loaded", "serving"} =>
        \A d \in Ids :
            named[d] # NoKey =>
                d \in DOMAIN devices /\ devices[d].friendly_name = named[d]

-----------------------------------------------------------------------------
(* C10: an announcement for an identifier unknown to the registry and the  *)
(* store creates the entry online, powered on, brightness 100, white,      *)
(* effect "none"; when its handling ends the Device row exists and the     *)
(* DeviceState row holds brightness 100, white, "none".                    *)
C10_FirstAnnounce ==
    [][LET id == msg'.payload.device_id
           old == msg.payload.device_id IN
       /\ (mpc = "idle" /\ mpc' = "announce_db"
             /\ id \notin DOMAIN devices /\ id \notin DOMAIN dbDevice) =>
            /\ id \in DOMAIN devices'
            /\ devices'[id].device_id = id
            /\ devices'[id].online = "True"
            /\ devices'[id].power = TRUE
            /\ devices'[id].brightness = 100
            /\ devices'[id].color = Color(255, 255, 255)
            /\ devices'[id].effect = "none"
       /\ (mpc = "announce_db_state" /\ mpc' = "idle") =>
            /\ old \in DOMAIN dbDevice'
            /\ old \in DOMAIN dbState'
            /\ dbState'[old].brightness = 100
            /\ dbState'[old].color_r = 255 /\ dbState'[old].color_g = 255
            /\ dbState'[old].color_b = 255
            /\ dbState'[old].effect = "none"]_vars

C10_Witness ==
    /\ Handled
    /\ "d2" \in DOMAIN devices /\ "d2" \in DOMAIN dbDevice /\ "d2" \in DOMAIN dbState
    /\ devices["d2"].online = "True" /\ devices["d2"].power = TRUE
    /\ devices["d2"].brightness = 100 /\ devices["d2"].color = Color(255, 255, 255)
    /\ devices["d2"].effect = "none"
    /\ dbState["d2"].brightness = 100 /\ dbState["d2"].effect = "none"
    /\ dbState["d2"].color_r = 255 /\ dbState["d2"].color_g = 255 /\ dbState["d2"].color_b = 255

-----------------------------------------------------------------------------
(* C11: a color, brightness, effect or power command writes nothing to     *)
(* the store and leaves the online flag of the entry as it was; a rename   *)
(* writes nothing to the store but the friendly_name of that Device row.   *)
C11_CommandsLeaveStore ==
    [][RequestStep =>
          /\ resp'.op \in {"set_color", "set_brightness", "set_effect", "set_power"} =>
                /\ dbDevice' = dbDevice
                /\ dbState' = dbState
                /\ \A d \in DOMAIN devices : devices'[d].online = devices[d].online
          /\ resp'.op = "set_name" =>
                /\ dbState' = dbState
                /\ DOMAIN dbDevice' = DOMAIN dbDevice
                /\ \A d \in DOMAIN dbDevice :
                      /\ dbDevice'[d].last_seen = dbDevice[d].last_seen
                      /\ d # resp'.id => dbDevice'[d] = dbDevice[d]
          /\ resp'.op \in {"get", "list"} =>
                dbDevice' = dbDevice /\ dbState' = dbState]_vars

C11_Witness ==
    /\ resp.op = "set_brightness" /\ resp.status = 200 /\ resp.id = "d1"
    /\ resp.body.brightness = 150
    /\ published # <<>>
    /\ "d1" \in DOMAIN dbState
    /\ dbState["d1"].brightness = 40
    /\ devices["d1"].online = "None"

-----------------------------------------------------------------------------
(* C12: a message whose payload is not a JSON object (invalid JSON,        *)
(* undecodable bytes, JSON that is not an object) is dropped when the      *)
(* thread takes it: the receive loop goes on, the registry and the store   *)
(* are unchanged.                                                          *)
C12_MalformedDiscarded ==
    [][(mpc = "idle" /\ pc' = pc /\ inbox # <<>> /\ inbox' = Tail(inbox)
          /\ Head(inbox).kind # "json") =>
            /\ mpc' = "idle"
            /\ devices' = devices
            /\ dbDevice' = dbDevice
            /\ dbState' = dbState]_vars

(* The same for invalid JSON text alone, which _on_message catches: holds. *)
C12_InvalidJsonDiscarded ==
    [][(mpc = "idle" /\ pc' = pc /\ inbox # <<>> /\ inbox' = Tail(inbox)
          /\ Head(inbox).kind = "invalid") =>
            /\ mpc' = "idle"
            /\ devices' = devices
            /\ dbDevice' = dbDevice
            /\ dbState' = dbState]_vars

-----------------------------------------------------------------------------
(* C13: a fault in the handling of one message (a malformed payload, a     *)
(* failing store operation) does not end the receive loop: no delivered    *)
(* message is left waiting on a loop that has ended.                       *)
C13_LoopSurvivesFaults == inbox # <<>> => mpc # "dead"

-----------------------------------------------------------------------------
(* C14: an announcement without device_id, and a state report without      *)
(* device_id or naming an identifier that is not in the registry, is       *)
(* discarded when the thread takes it: the registry and the store are     *)
(* unchanged, no observer is notified, and the thread is ready for the     *)
(* next message.                                                           *)
C14_Discarded ==
    [][(mpc = "idle" /\ pc' = pc /\ inbox # <<>> /\ inbox' = Tail(inbox)
          /\ Head(inbox).kind = "json"
          /\ \/ Head(inbox).topic = "announce" /\ Head(inbox).payload.device_id = NoId
             \/ Head(inbox).topic = "state"
                  /\ \/ Head(inbox).payload.device_id = NoId
                     \/ Head(inbox).payload.device_id \notin DOMAIN devices) =>
            /\ devices' = devices
            /\ dbDevice' = dbDevice
            /\ dbState' = dbState
            /\ notified' = notified
            /\ mpc' = "idle"]_vars

C14_Witness ==
    /\ Handled
    /\ dropped = "state"
    /\ DOMAIN devices = {"d1"}
    /\ DOMAIN dbDevice = {"d1"}
    /\ DOMAIN dbState = {"d1"}
    /\ notified = <<>>

-----------------------------------------------------------------------------
(* C15: a get or a list served while a state report for the device is      *)
(* being handled never returns an entry in which some of the report's      *)
(* fields hold the reported values and others do not.                      *)
PartlyApplied(e, p) == \E f, g \in p.keys : e[f] = p[f] /\ e[g] # p[g]

C15_NoPartialRead ==
    [][(RequestStep /\ resp'.status = 200 /\ mpc \in StatePositions) =>
          /\ (resp'.op = "get" /\ resp'.id = msg.payload.device_id) =>
                ~PartlyApplied(resp'.body, msg.payload)
          /\ resp'.op = "list" =>
                \A e \in resp'.list :
                    e.device_id = msg.payload.device_id => ~PartlyApplied(e, msg.payload)]_vars

-----------------------------------------------------------------------------
(* C16: every device object that GET /devices or GET /devices/{id} serves  *)
(* carries the seven keys device_id, friendly_name, online, power,         *)
(* brightness, color, effect, and its color carries r, g and b.            *)
HasAllKeys(e) ==
    /\ e.friendly_name # NoKey
    /\ e.color.r # NoChan /\ e.color.g # NoChan /\ e.color.b # NoChan

C16_ServedObjectsComplete ==
    /\ (resp.op = "get" /\ resp.status = 200) => HasAllKeys(resp.body)
    /\ resp.op = "list" => \A e \in resp.list : HasAllKeys(e)

-----------------------------------------------------------------------------
(* C17: the flag a health check reports is true only while a broker        *)
(* session is established: it is false before the first connect, after     *)
(* disconnect() and after the connection is lost.                          *)
C17_HealthReflectsSession ==
    [][(RequestStep /\ resp'.op = "health") => (resp'.mqtt_connected => session)]_vars

-----------------------------------------------------------------------------
(* C18: connect() returns to main() whether or not the broker can be       *)
(* reached: the startup goes on to the HTTP servers.                       *)
C18_ConnectReturns ==
    [][(pc = "main_loaded" /\ pc' # pc) => pc' = "main_connected"]_vars

-----------------------------------------------------------------------------
(* C19: the registry is loaded from the store once per start, before the   *)
(* broker session is opened and the network thread runs: no load happens   *)
(* once the receive loop has started.                                      *)
C19_LoadBeforeConnect ==
    [][(pc' # pc /\ pc' \in {"main_loaded", "lifespan_loaded"}) =>
          /\ pc = "main_start"
          /\ mpc = "off"
          /\ ~session]_vars

-----------------------------------------------------------------------------
(* C20: every color, brightness, effect or power command answered 200      *)
(* publishes exactly one message, on lights/<id>/set, whose payload        *)
(* carries the commanded field alone, with the value the entry then holds. *)
CommandField(op) ==
    CASE op = "set_color" -> "color"
      [] op = "set_brightness" -> "brightness"
      [] op = "set_effect" -> "effect"
      [] OTHER -> "power"

OneCommandPublished(r, pub, e) ==
    /\ Len(pub) = 1
    /\ pub[1].topic = "lights/" \o r.id \o "/set"
    /\ pub[1].payload.keys = {CommandField(r.op)}
    /\ pub[1].payload[CommandField(r.op)] = e[CommandField(r.op)]

C20_OneCommandPublished ==
    [][(RequestStep /\ resp'.status = 200
          /\ resp'.op \in {"set_color", "set_brightness", "set_effect", "set_power"}) =>
            OneCommandPublished(resp', published', devices'[resp'.id])]_vars

(* The same while the broker session is established: holds.                *)
C20_OneCommandWhileConnected ==
    [][(RequestStep /\ resp'.status = 200 /\ session
          /\ resp'.op \in {"set_color", "set_brightness", "set_effect", "set_power"}) =>
            OneCommandPublished(resp', published', devices'[resp'.id])]_vars

-----------------------------------------------------------------------------
(* C21: a color, brightness, effect or power command whose message could   *)
(* not be published leaves the registry entry as it was.                   *)
C21_UpdateOnlyIfPublished ==
    [][(RequestStep /\ published' = <<>>
          /\ resp'.op \in {"set_color", "set_brightness", "set_effect", "set_power"}) =>
            devices' = devices]_vars

-----------------------------------------------------------------------------
(* C22: when the handling of a state report ends, each of brightness,      *)
(* color and effect that the report carries (and that the entry still      *)
(* holds as reported) has the same value in the entry and in the           *)
(* DeviceState row, also for a color with some channels only; the columns  *)
(* of the fields the report does not carry are unchanged.                  *)
StoredField(row, f) ==
    CASE f = "brightness" -> row.brightness
      [] f = "effect" -> row.effect
      [] OTHER -> Color(row.color_r, row.color_g, row.color_b)

C22_MemoryEqualsStore ==
    [][LET p == msg.payload
           d == p.device_id IN
       (mpc = "state_db" /\ mpc' = "idle" /\ d \in DOMAIN dbState) =>
          \A f \in {"brightness", "color", "effect"} :
             IF f \in p.keys
             THEN devices[d][f] = p[f] => devices'[d][f] = StoredField(dbState'[d], f)
             ELSE StoredField(dbState'[d], f) = StoredField(dbState[d], f)]_vars

(* The same for the reports whose color, if any, carries r, g and b: holds. *)
C22_FullColorEqualsStore ==
    [][LET p == msg.payload
           d == p.device_id IN
       (mpc = "state_db" /\ mpc' = "idle" /\ d \in DOMAIN dbState
          /\ ("color" \in p.keys => NoChan \notin {p.color.r, p.color.g, p.color.b})) =>
          \A f \in {"brightness", "color", "effect"} :
             IF f \in p.keys
             THEN devices[d][f] = p[f] => devices'[d][f] = StoredField(dbState'[d], f)
             ELSE StoredField(dbState'[d], f) = StoredField(dbState[d], f)]_vars

-----------------------------------------------------------------------------
(* C23: when the handling of an accepted state report ends, the entry's    *)
(* online flag is true and the Device row's last_seen is the time of the   *)
(* handling.                                                               *)
C23_OnlineAndSeen ==
    [][LET d == msg.payload.device_id IN
       (mpc = "state_db" /\ mpc' = "idle") =>
          /\ d \in DOMAIN devices' /\ devices'[d].online = "True"
          /\ d \in DOMAIN dbDevice' /\ dbDevice'[d].last_seen = now]_vars

(* The handler's own steps: accepting the report marks the entry online,   *)
(* whatever the flag was, and the final step refreshes last_seen: holds.   *)
C23_MarksOnlineThenSeen ==
    [][/\ (mpc = "idle" /\ mpc' \in StatePositions) =>
             devices'[msg'.payload.device_id].online = "True"
       /\ (mpc = "state_db" /\ mpc' = "idle") =>
             LET d == msg.payload.device_id IN
               d \in DOMAIN dbDevice' /\ dbDevice'[d].last_seen = now]_vars

-----------------------------------------------------------------------------
(* C24: an announcement for a device the registry already holds changes,   *)
(* in the entry, the online flag only, which becomes true; the device has  *)
(* a Device row, and the store step changes that row's last_seen only,     *)
(* which becomes the time of the handling; no DeviceState row changes.     *)
C24_ReannounceOnlyOnlineAndSeen ==
    [][/\ (mpc = "idle" /\ mpc' = "announce_db"
              /\ msg'.payload.device_id \in DOMAIN devices) =>
             LET d == msg'.payload.device_id IN
               /\ devices' = [devices EXCEPT ![d].online = "True"]
               /\ d \in DOMAIN dbDevice
               /\ store' = store
       /\ (mpc = "announce_db" /\ mpc' \notin {"announce_db", "dead"}
              /\ msg.payload.device_id \in DOMAIN dbDevice) =>
             LET d == msg.payload.device_id IN
               /\ dbDevice' = [dbDevice EXCEPT ![d].last_seen = now]
               /\ dbState' = dbState
               /\ devices' = devices
               /\ mpc' = "idle"]_vars

(* A re-announcement of d1 was handled after time passed: d1 still has the *)
(* values loaded from the store, is online and was seen now.               *)
C24_Witness ==
    /\ mpc = "idle" /\ inbox = <<>> /\ now > 0
    /\ "d1" \in DOMAIN devices /\ "d1" \in DOMAIN dbDevice /\ "d1" \in DOMAIN dbState
    /\ reports["d1"] = <<>>
    /\ dbDevice["d1"].last_seen = now
    /\ devices["d1"].online = "True"
    /\ devices["d1"].brightness = SavedState.brightness
    /\ devices["d1"].friendly_name = <<"K">>
    /\ dbState["d1"] = SavedState

-----------------------------------------------------------------------------
(* C25: with an observer on the hook, the step that ends the handling of   *)
(* an accepted report, after the in-memory writes and with the commit,     *)
(* calls the observer once, for that device; no other step calls it: not   *)
(* the discard of a report, not a failed store write.                      *)
C25_NotifiedOncePerReport ==
    [][IF mpc = "state_db" /\ mpc' = "idle"
       THEN LET p == msg.payload
                d == p.device_id IN
              /\ notified' = Append(notified, [device_id |-> d, device |-> devices'[d]])
              /\ d \in DOMAIN dbDevice => dbDevice'[d].last_seen = now
              /\ d \in DOMAIN dbState => dbState'[d] = PersistReport(dbState[d], p)
       ELSE notified' = notified \/ (pc' = "main_start" /\ notified' = <<>>)]_vars

(* Two reports of d1 were delivered: one was handled and notified, the     *)
(* store write of the other failed.                                        *)
C25_Witness ==
    /\ on_state_change # "None"
    /\ mpc = "dead" /\ inbox = <<>>
    /\ Len(reports["d1"]) = 2
    /\ Len(notified) = 1
    /\ notified[1].device_id = "d1"

-----------------------------------------------------------------------------
(* C26: whenever the announcement handler is not between its two writes,   *)
(* every Device row has its DeviceState row, and every DeviceState row its *)
(* Device row.                                                             *)
C26_DeviceHasState ==
    mpc # "announce_db_state" => DOMAIN dbDevice = DOMAIN dbState

-----------------------------------------------------------------------------
(* C27: a setName that answers success leaves the Device row holding the   *)
(* normalized name; a setName for a registered device whose row is absent, *)
(* or whose store write fails, answers an error and leaves the registry    *)
(* as it was.                                                              *)
C27_NoSuccessWithoutStore ==
    [][(RequestStep /\ resp'.op = "set_name") =>
          LET d == resp'.id IN
            /\ resp'.status = 200 =>
                  /\ d \in DOMAIN dbDevice'
                  /\ dbDevice'[d].friendly_name = CleanName(resp'.arg)
            /\ (d \in DOMAIN devices /\ (d \notin DOMAIN dbDevice \/ resp'.status = 500)) =>
                  /\ resp'.status # 200
                  /\ devices' = devices]_vars

(* The failed write alone: the caller receives an error, and neither the   *)
(* registry nor the store changes: holds.                                  *)
C27_FailedWriteIsSurfaced ==
    [][(RequestStep /\ resp'.op = "set_name" /\ resp'.status = 500) =>
          devices' = devices /\ store' = store]_vars

-----------------------------------------------------------------------------
(* C28: when the process is restarted with every delivered message handled *)
(* and the network thread alive, the registry that the next load builds    *)
(* from the store holds every registered device, with power true, with the *)
(* brightness, the effect and each color channel of the device's last      *)
(* report that carried it, and never with a commanded brightness when no   *)
(* report carried brightness.                                              *)
Carries(p, f) ==
    CASE f \in {"brightness", "effect"} -> f \in p.keys
      [] OTHER -> "color" \in p.keys /\ p.color[f] # NoChan

Reported(p, f) ==
    CASE f = "brightness" -> p.brightness
      [] f = "effect" -> p.effect
      [] OTHER -> p.color[f]

Held(e, f) ==
    CASE f = "brightness" -> e.brightness
      [] f = "effect" -> e.effect
      [] OTHER -> e.color[f]

LastCarrying(rs, f) ==
    CHOOSE i \in 1..Len(rs) : Carries(rs[i], f) /\ \A j \in (i + 1)..Len(rs) : ~Carries(rs[j], f)

C28_RestartKeepsReported ==
    [][(pc # "main_start" /\ pc' = "main_start" /\ mpc = "idle" /\ inbox = <<>>) =>
          LET L == Loaded(devices', dbDevice', dbState', now') IN
            \A d \in DOMAIN devices :
               /\ d \in DOMAIN L
               /\ L[d].power = TRUE
               /\ \A f \in {"brightness", "effect", "r", "g", "b"} :
                    IF \E i \in 1..Len(reports[d]) : Carries(reports[d][i], f)
                    THEN Held(L[d], f) = Reported(reports[d][LastCarrying(reports[d], f)], f)
                    ELSE f = "brightness" => L[d].brightness \notin CmdBrightness]_vars

(* A restart after d1 reported a brightness and a color with one channel.  *)
C28_Restarted ==
    /\ pc = "main_start" /\ nEvents > 0
    /\ "d1" \in DOMAIN dbState
    /\ dbState["d1"].brightness = 10
    /\ dbState["d1"].color_r = 10 /\ dbState["d1"].color_g = SavedState.color_g

-----------------------------------------------------------------------------
(* C29: once a command on field f of a device has been answered and every  *)
(* delivered report has been handled, with some report of that device      *)
(* carrying f, the entry holds for f either the whole value the command    *)
(* returned or the whole value of the last report that carried f; and the  *)
(* other fields that commands set, and no report wrote since, still hold   *)
(* the commanded values.                                                   *)
C29_LastWriteWins ==
    [][(pc' = "serving" /\ mpc' = "idle" /\ inbox' = <<>> /\ resp'.status = 200
          /\ resp'.op \in {"set_color", "set_brightness", "set_effect", "set_power"}) =>
          LET d == resp'.id
              f == CommandField(resp'.op)
              rs == reports'[d]
              carrying == {i \in 1..Len(rs) : f \in rs[i].keys} IN
            carrying # {} =>
               LET last == CHOOSE i \in carrying : \A j \in carrying : j <= i IN
                 /\ devices'[d][f] \in {resp'.body[f], rs[last][f]}
                 /\ \A g \in lastSet'[d].keys \ {f} : devices'[d][g] = lastSet'[d][g]]_vars

(* A color command on d1 was answered after the handler of a report had    *)
(* written power and before it wrote effect; the report's color, written   *)
(* after the command's, is the one the entry holds.                        *)
C29_Witness ==
    /\ pc = "serving" /\ mpc = "idle" /\ inbox = <<>> /\ nEvents = 2
    /\ resp.op = "set_color" /\ resp.status = 200 /\ resp.id = "d1"
    /\ resp.body.power = FALSE /\ resp.body.effect # "rainbow"
    /\ resp.body.color = Color(1, 2, 3)
    /\ "d1" \in DOMAIN devices
    /\ devices["d1"].color = Color(10, 20, 30)
    /\ devices["d1"].effect = "rainbow"

-----------------------------------------------------------------------------
(* C30: in every state, every registry entry and every DeviceState row has *)
(* a brightness in 0..100 and, for each color channel it carries, a value  *)
(* in 0..255.                                                              *)
BrightnessRange == 0..100
ChannelRange == 0..255

C30_ValuesInRange ==
    /\ \A d \in DOMAIN devices :
          /\ devices[d].brightness \in BrightnessRange
          /\ \A c \in {"r", "g", "b"} : devices[d].color[c] \in ChannelRange \cup {NoChan}
    /\ \A d \in DOMAIN dbState :
          /\ dbState[d].brightness \in BrightnessRange
          /\ {dbState[d].color_r, dbState[d].color_g, dbState[d].color_b} \subseteq ChannelRange

-----------------------------------------------------------------------------
(* C31: while the process runs, no step takes the online flag of an entry  *)
(* from true to anything else.                                             *)
C31_OnlineNeverRevoked ==
    [][pc' # "main_start" =>
          \A d \in DOMAIN devices :
             devices[d].online = "True" =>
                d \in DOMAIN devices' /\ devices'[d].online = "True"]_vars

(* The same for the steps that are not a load of the registry: holds.      *)
C31_OnlyLoadRevokes ==
    [][(pc' # "main_start" /\ pc' = pc) =>
          \A d \in DOMAIN devices :
             devices[d].online = "True" =>
                d \in DOMAIN devices' /\ devices'[d].online = "True"]_vars

-----------------------------------------------------------------------------
-----------------------------------------------------------------------------
(* C33: every step of an assistant-tool call that is taken while the API   *)
(* is not reachable, and that needs the API, ends the call with the        *)
(* connectivity-failure result: not with the not-found result, not with    *)
(* an exception. (Resolving a given device_id and refusing an unknown      *)
(* effect need no request.)                                                *)
NeedsNoRequest ==
    \/ tool.pos = "idle" /\ tool'.pos = "posting" /\ tool'.arg # NoId
    \/ tool'.outcome = "unknown_effect"

C33_UnreachableIsReported ==
    [][(tool' # tool /\ ~ApiUp /\ ~NeedsNoRequest) =>
          tool'.pos = "idle" /\ tool'.outcome = "unreachable"]_vars

(* The same for the first request of a call (list_devices, get_device, and *)
(* the GET /devices of a set_* tool given no device_id): holds.            *)
C33_FirstRequestIsReported ==
    [][(tool' # tool /\ ~ApiUp /\ ~NeedsNoRequest /\ tool.pos = "idle") =>
          tool'.pos = "idle" /\ tool'.outcome = "unreachable"]_vars

-----------------------------------------------------------------------------
(* C34: every step of the handling of an accepted state report writes the  *)
(* entry and the rows of the device that the payload names, with what the  *)
(* payload carries, and leaves the entry and the rows of every other       *)
(* device as they were, the device that the topic names included.          *)
StateHandlerStep ==
    /\ mpc' # mpc
    /\ \/ mpc = "idle" /\ mpc' \in StatePositions
       \/ mpc \in StatePositions /\ mpc' \in StatePositions \cup {"idle"}

C34_PayloadNamesDevice ==
    [][StateHandlerStep =>
          LET m == IF mpc = "idle" THEN msg' ELSE msg
              p == m.payload
              B == p.device_id IN
            /\ B \in DOMAIN devices
            /\ \A d \in DOMAIN devices \ {B} :
                  /\ devices'[d] = devices[d]
                  /\ d \in DOMAIN dbDevice => dbDevice'[d] = dbDevice[d]
                  /\ d \in DOMAIN dbState => dbState'[d] = dbState[d]
            /\ mpc = "idle" => devices'[B].online = "True"
            /\ \A f \in Fields : mpc = "state_" \o f => devices'[B][f] = p[f]
            /\ mpc = "state_db" =>
                  /\ B \in DOMAIN dbDevice => dbDevice'[B].last_seen = now
                  /\ B \in DOMAIN dbState => dbState'[B] = PersistReport(dbState[B], p)]_vars

(* The report of d2 published on the topic of d1 was handled with both     *)
(* devices known: d2 has the reported effect in the registry and in the    *)
(* store, d1 has what it was loaded with.                                  *)
C34_Witness ==
    /\ mpc = "idle" /\ inbox = <<>>
    /\ DOMAIN devices = {"d1", "d2"}
    /\ devices["d2"].effect = CrossTopic.payload.effect
    /\ "d2" \in DOMAIN dbState /\ dbState["d2"].effect = CrossTopic.payload.effect
    /\ devices["d1"].effect = SavedState.effect
    /\ "d1" \in DOMAIN dbState /\ dbState["d1"] = SavedState

====
